---- MODULE Spec2Model ----
(***************************************************************************)
(* Model of the emotion-conversation client: the App component (session    *)
(* state and the two round-trip orchestrators handleVoiceMessage and       *)
(* handleTextMessage), the two VoiceRecorder instances that feed it (one   *)
(* in EmotionCharacterPanel, one in ChatScreen) and the props the App      *)
(* render passes to the two surfaces.                                      *)
(*                                                                         *)
(* Every async function is cut at its awaits: the code between two awaits  *)
(* runs to completion on the single UI event loop and is one action.       *)
(* Consecutive awaits with no state change between them (fetch followed by *)
(* response.json()) are one suspension point whose failure is either one   *)
(* failing.  React state setters called in the same synchronous run are    *)
(* applied together.                                                       *)
(***************************************************************************)
EXTENDS Integers, Sequences, FiniteSets, TLC

VARIABLES
  platform,          \* Platform.OS: "web" or "native", fixed for a run
  clock,             \* Date.now(), non-decreasing
  messages,          \* App: useState([])
  isProcessing,      \* App: useState(false)
  conversationId,    \* App: useState(null), set by startNewConversation
  currentEmotion,    \* App: useState(null)
  lastUsedPanel,     \* App: useState('emotion')
  userTranscript,    \* App: useState('')
  llmResponse,       \* App: useState('')
  ttsAudioUrl,       \* App: useState(null)
  exch,              \* the invocations of handleVoiceMessage / handleTextMessage
  nExch,             \* number of invocations begun so far
  permissionGranted, \* VoiceRecorder: useState(false), per surface
  isRecording,       \* VoiceRecorder: useState(false), per surface
  isPaused,          \* VoiceRecorder: useState(false), per surface
  mrState,           \* web: mediaRecorderRef.current.state, per surface
  recordingRef,      \* native: recordingRef.current, per surface
  stopPc,            \* per surface: where a stopRecording call / onstop event is
  pressConv,         \* per surface: conversationId of the render whose stop
                     \* button was pressed, while that stop is under way
  recorder,          \* one VoiceRecorder instance: state, refs, capture backend
  player,            \* one ChatMessage and one EmotionCharacterPanel: playback
  history,           \* one ConversationHistory instance and the history service
  activePanel,       \* App: useState('emotion')
  convLoads,         \* ids of the loadConversation calls awaiting their fetch
  loadFailed,        \* ghost: the loadConversation answered last ended without
                     \* success
  freshConv          \* the id the next startNewConversation generates

vars == <<platform, clock, messages, isProcessing, conversationId, currentEmotion,
          lastUsedPanel, userTranscript, llmResponse, ttsAudioUrl, exch, nExch,
          permissionGranted, isRecording, isPaused, mrState, recordingRef,
          stopPc, pressConv, recorder, player, history, activePanel, convLoads,
          loadFailed, freshConv>>

\* the components modelled on their own
compVars == <<recorder, player>>

\* what no step of an exchange or of a recorder touches
detailVars == <<compVars, history, activePanel, convLoads, loadFailed, freshConv>>

appVars == <<messages, isProcessing, conversationId, currentEmotion, lastUsedPanel,
             userTranscript, llmResponse, ttsAudioUrl, exch, nExch>>

recVars == <<permissionGranted, isRecording, isPaused, mrState,
             recordingRef, stopPc, pressConv>>

----------------------------------------------------------------------------
(* Bounds of the model *)

MaxExch == 2        \* invocations of the two orchestrators in one run
MaxClock == 1       \* milliseconds the clock may advance
MaxConv == 2        \* conversation ids startNewConversation may generate
MaxStarts == 2      \* RecSpec: startRecording calls that go on to the backend
MaxPending == 2     \* RecSpec: calls of one kind a recorder awaits at a time
MaxTicks == 2       \* RecSpec: seconds the recorder's counter may reach
MaxPlays == 2       \* PlaySpec: sounds one component may create
MaxUrls == 2        \* PlaySpec: audio handles the panel may be passed
MaxHistIds == 3     \* HistSpec: conversations the service may ever hold
MaxRequests == 3    \* HistSpec: list and delete requests made in one run
MaxLoads == 1       \* SessSpec: loadConversation calls awaited at a time

----------------------------------------------------------------------------
(* Values *)

Surfaces == {"emotion", "chat"}
Platforms == {"web", "native"}
ExchIds == 1..MaxExch

Null == <<"null">>                    \* null audio handle
EmptyText == <<>>                     \* ''
NoEmotion == "none"                   \* null / undefined emotion
Emotions == {"sad"}                   \* data.detected_emotion
ProcessingText == <<"processing">>    \* '음성 메시지를 처리 중입니다...'
ErrorText == <<"error">>              \* '죄송합니다. 메시지 처리 중 오류가 ...'
UserTexts == {<<"text", 1>>}          \* textInput.trim(), non-empty
Transcript(e) == <<"transcript", e>>  \* data.transcribed_text of request e
Reply(e) == <<"reply", e>>            \* data.llm_response / data.response of e
BlobUrl(e) == <<"blob", e>>           \* URL.createObjectURL(audioBlob)
FileUri(t) == <<"file", t>>           \* `${documentDirectory}tts_${Date.now()}.wav`

NoConv == 0                           \* conversationId: null
FirstConv == MaxHistIds               \* the id the mount effect has generated

\* session: the conversationId displayed when the invocation was entered;
\* conv: the conversationId its closure holds, which the request carries
IdleExch == [kind |-> "none", origin |-> "none", pc |-> "idle", uid |-> 0,
             session |-> NoConv, conv |-> NoConv, text |-> EmptyText, replyReqs |-> 0, ttsReqs |-> 0,
             replyResult |-> "none", fileUri |-> Null, result |-> "none",
             refreshed |-> FALSE]

InFlight(e) == exch[e].pc \notin {"idle", "done"}

----------------------------------------------------------------------------
(* Messages *)

\* the `emotion` field stands for emotion, emotionProbability and emotionTop3,
\* which are attached together from one response
UserMessage(id, text) ==
  [id |-> id, text |-> text, isUser |-> TRUE, emotion |-> NoEmotion, audioUrl |-> Null]

AssistantMessage(id, text, audioUrl) ==
  [id |-> id, text |-> text, isUser |-> FALSE, emotion |-> NoEmotion, audioUrl |-> audioUrl]

\* a handleVoiceMessage that would show the user's turn only once the reply is in
AppendPlaceholder_Late(prev, now) == prev

\* setMessages((prev) => [...prev, userMessage]) with the interim text
AppendPlaceholder(prev, now) == Append(prev, UserMessage(now, ProcessingText))

\* setMessages((prev) => [...prev, userMessage]) of handleTextMessage
AppendUserText(prev, now, text) == Append(prev, UserMessage(now, text))

\* a resolution that would add the transcribed turn instead of updating the
\* placeholder
ResolvePlaceholder_Duplicate(prev, uid, text, emotion) ==
  Append(prev, [UserMessage(uid, text) EXCEPT !.emotion = emotion])

\* setMessages((prev) => prev.map((msg) => msg.id === userMessage.id ? {...} : msg))
ResolvePlaceholder(prev, uid, text, emotion) ==
  [i \in 1..Len(prev) |->
     IF prev[i].id = uid
       THEN [prev[i] EXCEPT !.text = text, !.emotion = emotion]
       ELSE prev[i]]

\* a tail of the try block that would add the reply a second time
AppendAssistant_Twice(prev, now, text, audioUrl) ==
  Append(Append(prev, AssistantMessage(now + 1, text, audioUrl)),
         AssistantMessage(now + 1, text, audioUrl))

\* assistantMessage, id: Date.now() + 1
AppendAssistant(prev, now, text, audioUrl) ==
  Append(prev, AssistantMessage(now + 1, text, audioUrl))

\* a catch block that would roll the last message back before reporting
AppendError_Rollback(prev, now) ==
  Append(SubSeq(prev, 1, Len(prev) - 1), AssistantMessage(now + 2, ErrorText, Null))

\* errorMessage, id: Date.now() + 2
AppendError(prev, now) == Append(prev, AssistantMessage(now + 2, ErrorText, Null))

----------------------------------------------------------------------------
(* Props the App render passes to the two surfaces *)

EmotionPanelProps ==
  [isProcessing   |-> IF lastUsedPanel = "emotion" THEN isProcessing ELSE FALSE,
   userTranscript |-> IF lastUsedPanel = "emotion" THEN userTranscript ELSE EmptyText,
   llmResponse    |-> IF lastUsedPanel = "emotion" THEN llmResponse ELSE EmptyText,
   audioUrl       |-> IF lastUsedPanel = "emotion" THEN ttsAudioUrl ELSE Null]

ChatScreenProps == [messages |-> messages, isProcessing |-> isProcessing]

\* the isProcessing prop of the VoiceRecorder rendered inside surface s
RecorderIsProcessing(s) ==
  IF s = "emotion" THEN EmotionPanelProps.isProcessing ELSE ChatScreenProps.isProcessing

----------------------------------------------------------------------------
(* Initial state *)

\* the component as first rendered, its mount effect having called
\* requestPermissions()
InitRecorder ==
  [mounted           |-> TRUE,
   permissionGranted |-> FALSE,    \* useState(false)
   isRecording       |-> FALSE,    \* useState(false)
   isPaused          |-> FALSE,    \* useState(false)
   recordingTime     |-> 0,        \* useState(0)
   timerRef          |-> "null",   \* "null", "live" or "cleared" interval
   leakedTimers      |-> 0,        \* running intervals timerRef no longer holds
   mediaRecorderRef  |-> "null",   \* web: "null" or the MediaRecorder's state
   audioChunks       |-> 0,        \* web: audioChunksRef.current.length
   recordingRef      |-> "null",   \* native: "null" or the Recording's state
   orphanSessions    |-> 0,        \* sessions still capturing that no ref holds
   permReqs          |-> 1,        \* requestPermissions calls awaiting an answer
   startCalls        |-> 0,        \* native startRecording calls awaiting createAsync
   stopPc            |-> "none",   \* web: "data", "onstop"; native: "unload", "info"
   starts            |-> 0,        \* startRecording calls that went on to the backend
   stops             |-> 0,        \* stopRecording calls made while recording or paused
   delivered         |-> 0,        \* onRecordingComplete calls
   rejected          |-> FALSE,    \* a call to the native backend has rejected
   denied            |-> FALSE]    \* a permission request has been denied

\* a ChatMessage of an assistant message that carries an audio handle, and
\* an EmotionCharacterPanel as first rendered: audioUrl null, so that its
\* effect has started nothing
InitPlayer ==
  [msg   |-> [mounted        |-> TRUE,
              audioUrl       |-> TRUE,    \* message.audioUrl is set
              isPlayingAudio |-> FALSE,   \* useState(false)
              loading        |-> 0,       \* createAsync calls awaited
              playing        |-> 0,       \* sounds loaded and playing
              created        |-> 0,       \* createAsync calls made
              completed      |-> 0,       \* completions reported to the state
              released       |-> 0,       \* unloadAsync calls
              recalled       |-> FALSE],  \* playAudio was called while playing
   panel |-> [mounted      |-> TRUE,
              audioUrl     |-> 0,         \* prop audioUrl; 0: null
              isProcessing |-> FALSE,     \* prop isProcessing
              isActive     |-> TRUE,      \* prop isActive
              soundRef     |-> "null",    \* soundRef.current: "null" or "live"
              strays       |-> 0,         \* live sounds soundRef no longer holds
              loading      |-> 0,         \* createAsync calls awaited
              created      |-> 0,         \* createAsync calls made
              released     |-> 0]]        \* unloadAsync calls on a live sound

HistIds == 1..MaxHistIds

RECURSIVE ListOf(_)
\* the body of a list response: the summaries of the conversations S, the
\* most recent (greatest id) first
ListOf(S) ==
  IF S = {}
    THEN <<>>
    ELSE LET m == CHOOSE x \in S : \A y \in S : y <= x
         IN <<m>> \o ListOf(S \ {m})

\* ConversationHistory as first rendered, its mount effect having called
\* loadConversations(); the service holds all conversations but one
InitHistory ==
  [server        |-> HistIds \ {MaxHistIds},
   conversations |-> <<>>,          \* useState([])
   isLoading     |-> TRUE,          \* useState(false), then setIsLoading(true)
   loads         |-> <<ListOf(HistIds \ {MaxHistIds})>>,  \* list responses to come
   deletes       |-> <<>>,          \* deleteConversation calls awaiting their fetch
   issued        |-> 1,             \* requests made and dialogs answered
   notices       |-> 0,             \* alerts shown
   newCalls      |-> 0,             \* onNewConversation calls
   last          |-> "none",        \* how the latest deleteConversation step went
   answered      |-> <<>>]          \* <<id, outcome>> of each delete answered

Init ==
  /\ platform \in Platforms
  /\ clock = 0
  /\ messages = <<>>
  /\ isProcessing = FALSE
  /\ conversationId = FirstConv
  /\ currentEmotion = NoEmotion
  /\ lastUsedPanel = "emotion"
  /\ userTranscript = EmptyText
  /\ llmResponse = EmptyText
  /\ ttsAudioUrl = Null
  /\ exch = [e \in ExchIds |-> IdleExch]
  /\ nExch = 0
  /\ permissionGranted = [s \in Surfaces |-> TRUE]
  /\ isRecording = [s \in Surfaces |-> FALSE]
  /\ isPaused = [s \in Surfaces |-> FALSE]
  /\ mrState = [s \in Surfaces |-> IF platform = "web" THEN "inactive" ELSE "none"]
  /\ recordingRef = [s \in Surfaces |-> "null"]
  /\ stopPc = [s \in Surfaces |-> "none"]
  /\ pressConv = [s \in Surfaces |-> NoConv]
  /\ recorder = InitRecorder
  /\ player = InitPlayer
  /\ history = InitHistory
  /\ activePanel = "emotion"
  /\ convLoads = <<>>
  /\ loadFailed = FALSE
  /\ freshConv = FirstConv + 1

\* the values a read of Date.now() may return: the clock never goes back
Now == clock..MaxClock

----------------------------------------------------------------------------
(* App: session *)

\* the run can still generate a conversation id
CanStartNew == freshConv < FirstConv + MaxConv

\* startNewConversation(): a new id, unlike every id generated before
startNewConversation ==
  /\ conversationId' = freshConv
  /\ freshConv' = freshConv + 1
  /\ messages' = <<>>
  /\ currentEmotion' = NoEmotion

\* what startNewConversation sets
newConvVars == <<conversationId, freshConv, messages, currentEmotion>>

\* startNewConversation, pressed on the "+" of ConversationHistory
StartNewConversation ==
  /\ CanStartNew
  /\ startNewConversation
  /\ UNCHANGED <<compVars, history, activePanel, convLoads, loadFailed, platform, clock,
                 isProcessing, lastUsedPanel, userTranscript,
                 llmResponse, ttsAudioUrl, exch, nExch, recVars>>

----------------------------------------------------------------------------
(* App: the round-trip orchestrators *)

\* the panel handleVoiceMessage records: setLastUsedPanel('emotion')
VoicePanel(s) == "emotion"

\* the panel handleTextMessage records: setLastUsedPanel('chat')
TextPanel == "chat"

\* the conversationId in the closure of the handleVoiceMessage that the
\* VoiceRecorder of surface s calls.  web: onstop was attached by the
\* requestPermissions of the mount effect and calls the onRecordingComplete
\* of the first render, in which conversationId is still null.  native:
\* stopRecording calls the onRecordingComplete of the render it was pressed in.
HandlerConv(s) == IF platform = "web" THEN NoConv ELSE pressConv[s]

\* handleVoiceMessage(audioData) up to `await fetch(CHAT_VOICE)`; s is the
\* surface whose VoiceRecorder called onRecordingComplete
HandleVoiceMessage(s, now) ==
  /\ nExch < MaxExch
  /\ clock' = now
  /\ nExch' = nExch + 1
  /\ isProcessing' = TRUE
  /\ lastUsedPanel' = VoicePanel(s)
  /\ userTranscript' = ProcessingText
  /\ llmResponse' = EmptyText
  /\ ttsAudioUrl' = Null
  /\ messages' = AppendPlaceholder(messages, now)
  /\ exch' = [exch EXCEPT ![nExch + 1] =
                [IdleExch EXCEPT !.kind = "voice", !.origin = s, !.pc = "reply",
                                 !.uid = now, !.session = conversationId,
                                 !.conv = HandlerConv(s), !.replyReqs = 1]]
  /\ UNCHANGED <<detailVars, platform, conversationId, currentEmotion>>

\* ChatScreen.handleTextSubmit and handleTextMessage(textMessage) up to
\* `await fetch(CHAT_TEXT)`
HandleTextMessage(text, now) ==
  /\ nExch < MaxExch
  /\ clock' = now
  /\ ~ChatScreenProps.isProcessing
  /\ nExch' = nExch + 1
  /\ isProcessing' = TRUE
  /\ lastUsedPanel' = TextPanel
  /\ messages' = AppendUserText(messages, now, text)
  /\ exch' = [exch EXCEPT ![nExch + 1] =
                [IdleExch EXCEPT !.kind = "text", !.origin = "chat", !.pc = "reply",
                                 !.uid = now, !.session = conversationId,
                                 !.conv = conversationId,
                                 !.text = text, !.replyReqs = 1]]
  /\ UNCHANGED <<detailVars, platform, conversationId, currentEmotion, userTranscript,
                 llmResponse, ttsAudioUrl, recVars>>

TextSubmit == \E text \in UserTexts, now \in Now : HandleTextMessage(text, now)

\* ConversationHistory.loadConversations() up to its fetch; the service
\* answers with the conversations it holds when the request is made
loadConversations(h) ==
  [h EXCEPT !.isLoading = TRUE, !.loads = Append(@, ListOf(h.server))]

\* a try block that would forget the refresh
TryRefreshes_Forgotten == FALSE

\* the try block's tail: conversationHistoryRef.current.loadConversations()
TryRefreshes == TRUE

\* the catch block calls nothing but setMessages
CatchRefreshes == FALSE

\* a failure path that would still ask for speech
OnReplyFail_Speculative(x) == [x EXCEPT !.replyResult = "fail", !.ttsReqs = @ + 1]

\* the invocation's record once the reply request has failed
OnReplyFail(x) == [x EXCEPT !.replyResult = "fail"]

\* the invocation's record once the reply request has succeeded:
\* `await fetch(CHAT_TTS)` is issued
OnReplyOk(x) == [x EXCEPT !.replyResult = "ok", !.ttsReqs = @ + 1, !.pc = "tts"]

\* the invocation's record once the async function has returned: its
\* argument and locals (audioData, textMessage, userMessage, fileUri) are gone
Returned(x, result, refreshed) ==
  [x EXCEPT !.pc = "done", !.result = result, !.refreshed = refreshed,
            !.origin = "none", !.uid = 0, !.session = NoConv, !.conv = NoConv,
            !.text = EmptyText,
            !.fileUri = Null]

\* catch (error) { setMessages(... errorMessage) } finally { setIsProcessing(false) }
FinishError(e, x, now) ==
  /\ clock' = now
  /\ messages' = AppendError(messages, now)
  /\ isProcessing' = FALSE
  /\ exch' = [exch EXCEPT ![e] = Returned(x, "error", CatchRefreshes)]
  /\ UNCHANGED <<detailVars, platform, conversationId, currentEmotion, lastUsedPanel,
                 userTranscript, llmResponse, ttsAudioUrl, nExch, recVars>>

\* the tail of the try block after the synthesis attempt, then finally
FinishAssistant(e, audioUrl, now) ==
  /\ clock' = now
  /\ IF exch[e].kind = "voice"
       THEN llmResponse' = Reply(e) /\ ttsAudioUrl' = audioUrl
       ELSE UNCHANGED <<llmResponse, ttsAudioUrl>>
  /\ messages' = AppendAssistant(messages, now, Reply(e), audioUrl)
  /\ isProcessing' = FALSE
  /\ exch' = [exch EXCEPT ![e] = Returned(exch[e], "assistant", TryRefreshes)]
  /\ history' = IF TryRefreshes THEN loadConversations(history) ELSE history
  /\ UNCHANGED <<compVars, activePanel, convLoads, loadFailed, freshConv, platform,
                 conversationId, currentEmotion, lastUsedPanel,
                 userTranscript, nExch, recVars>>

\* fetch rejects, response.ok is false, or response.json() rejects
ReplyFail(e) ==
  /\ exch[e].pc = "reply"
  /\ \E now \in Now : FinishError(e, OnReplyFail(exch[e]), now)

\* the conversation ids a reply may carry as data.conversation_id
ReturnedConvs == 1..(FirstConv + MaxConv)

\* an orchestrator that would adopt the id the service returns
AfterReply_Adopted(current, returned) == returned

\* conversationId after a reply has been handled: neither orchestrator
\* reads data.conversation_id
AfterReply(current, returned) == current

\* response.ok and response.json() resolves
ReplyOk(e) ==
  /\ exch[e].pc = "reply"
  /\ \E returned \in ReturnedConvs :
       conversationId' = AfterReply(conversationId, returned)
  /\ IF exch[e].kind = "voice"
       THEN \E emotion \in Emotions :
              /\ userTranscript' = Transcript(e)
              /\ currentEmotion' = emotion
              /\ messages' = ResolvePlaceholder(messages, exch[e].uid,
                                                Transcript(e), emotion)
       ELSE UNCHANGED <<userTranscript, currentEmotion, messages>>
  /\ exch' = [exch EXCEPT ![e] = OnReplyOk(exch[e])]
  /\ UNCHANGED <<detailVars, platform, clock, isProcessing, lastUsedPanel,
                 llmResponse, ttsAudioUrl, nExch, recVars>>

\* `await fetch(CHAT_TTS)` rejects
TtsThrow(e) ==
  /\ exch[e].pc = "tts"
  /\ \E now \in Now : FinishError(e, exch[e], now)

\* ttsResponse.ok is false: audioUrl stays null
TtsNotOk(e) ==
  /\ exch[e].pc = "tts"
  /\ \E now \in Now : FinishAssistant(e, Null, now)

\* ttsResponse.ok: `await ttsResponse.blob()`
TtsOk(e) ==
  /\ exch[e].pc = "tts"
  /\ exch' = [exch EXCEPT ![e].pc = "blob"]
  /\ UNCHANGED <<detailVars, platform, clock, messages, isProcessing, conversationId,
                 currentEmotion, lastUsedPanel, userTranscript, llmResponse,
                 ttsAudioUrl, nExch, recVars>>

\* ttsResponse.blob() rejects
BlobFail(e) ==
  /\ exch[e].pc = "blob"
  /\ \E now \in Now : FinishError(e, exch[e], now)

\* ttsResponse.blob() resolves; web: URL.createObjectURL, native: FileReader
BlobOk(e) ==
  /\ exch[e].pc = "blob"
  /\ IF platform = "web"
       THEN \E now \in Now : FinishAssistant(e, BlobUrl(e), now)
       ELSE /\ exch' = [exch EXCEPT ![e].pc = "read"]
            /\ UNCHANGED <<detailVars, platform, clock, messages, isProcessing, conversationId,
                           currentEmotion, lastUsedPanel, userTranscript,
                           llmResponse, ttsAudioUrl, nExch, recVars>>

\* reader.onloadend after a successful read: resolve(base64data), then
\* `await FileSystem.writeAsStringAsync(fileUri, ...)`
ReadOk(e) ==
  /\ exch[e].pc = "read"
  /\ \E now \in Now :
       /\ clock' = now
       /\ exch' = [exch EXCEPT ![e].pc = "write", ![e].fileUri = FileUri(now)]
  /\ UNCHANGED <<detailVars, platform, messages, isProcessing, conversationId,
                 currentEmotion, lastUsedPanel, userTranscript, llmResponse,
                 ttsAudioUrl, nExch, recVars>>

\* where the invocation is after reader.onloadend fired for a failed read:
\* reader.result is null, reader.result.split throws inside the event
\* handler, resolve is never called and the Promise has no reject
AfterReadFail == "hung"

ReadFail(e) ==
  /\ exch[e].pc = "read"
  /\ exch' = [exch EXCEPT ![e].pc = AfterReadFail]
  /\ UNCHANGED <<detailVars, platform, clock, messages, isProcessing, conversationId,
                 currentEmotion, lastUsedPanel, userTranscript, llmResponse,
                 ttsAudioUrl, nExch, recVars>>

\* writeAsStringAsync resolves: audioUrl = fileUri
WriteOk(e) ==
  /\ exch[e].pc = "write"
  /\ \E now \in Now : FinishAssistant(e, exch[e].fileUri, now)

\* writeAsStringAsync rejects
WriteFail(e) ==
  /\ exch[e].pc = "write"
  /\ \E now \in Now : FinishError(e, exch[e], now)

\* a pending external call of invocation e completes or fails
ExchStep(e) ==
  \/ ReplyFail(e)
  \/ ReplyOk(e)
  \/ TtsThrow(e)
  \/ TtsNotOk(e)
  \/ TtsOk(e)
  \/ BlobFail(e)
  \/ BlobOk(e)
  \/ ReadOk(e)
  \/ ReadFail(e)
  \/ WriteOk(e)
  \/ WriteFail(e)

----------------------------------------------------------------------------
(* VoiceRecorder, one instance per surface *)

\* stop presses whose onRecordingComplete call is still to come
PendingStops == Cardinality({s \in Surfaces : stopPc[s] # "none"})

\* the record button is rendered when !isRecording, disabled={isProcessing}
StartEnabled(s) ==
  /\ permissionGranted[s]
  /\ ~isRecording[s]
  /\ ~RecorderIsProcessing(s)

\* startRecording succeeds.  web: mediaRecorder.start() throws unless the
\* recorder is 'inactive' (caught, alert, nothing changes).  native:
\* Audio.Recording.createAsync resolves; when it rejects nothing changes.
\* A recorder is started again only after its previous stop has run to its
\* end, and only while the bounded run can still take its recording.
StartRecording(s) ==
  /\ StartEnabled(s)
  /\ stopPc[s] = "none"
  /\ nExch + PendingStops < MaxExch
  /\ IF platform = "web"
       THEN /\ mrState[s] = "inactive"
            /\ mrState' = [mrState EXCEPT ![s] = "recording"]
            /\ UNCHANGED recordingRef
       ELSE /\ recordingRef' = [recordingRef EXCEPT ![s] = "recording"]
            /\ UNCHANGED mrState
  /\ isRecording' = [isRecording EXCEPT ![s] = TRUE]
  /\ UNCHANGED <<detailVars, platform, clock, appVars, permissionGranted, isPaused,
                 stopPc, pressConv>>

\* pauseRecording, rendered when isRecording && !isPaused
PauseRecording(s) ==
  /\ isRecording[s]
  /\ ~isPaused[s]
  /\ isPaused' = [isPaused EXCEPT ![s] = TRUE]
  /\ mrState' = IF platform = "web" /\ mrState[s] = "recording"
                  THEN [mrState EXCEPT ![s] = "paused"]
                  ELSE mrState
  /\ UNCHANGED <<detailVars, platform, clock, appVars, permissionGranted, isRecording,
                 recordingRef, stopPc, pressConv>>

\* resumeRecording, rendered when isRecording && isPaused
ResumeRecording(s) ==
  /\ isRecording[s]
  /\ isPaused[s]
  /\ isPaused' = [isPaused EXCEPT ![s] = FALSE]
  /\ mrState' = IF platform = "web" /\ mrState[s] = "paused"
                  THEN [mrState EXCEPT ![s] = "recording"]
                  ELSE mrState
  /\ UNCHANGED <<detailVars, platform, clock, appVars, permissionGranted, isRecording,
                 recordingRef, stopPc, pressConv>>

\* stopRecording, rendered when isRecording and not gated by isProcessing.
\* web: mediaRecorder.stop() only if its state is 'recording'; the stop event
\* is then queued.  native: up to `await stopAndUnloadAsync()`.  The press is
\* taken only while the bounded run can still take the recording.
StopRecording(s) ==
  /\ isRecording[s]
  /\ nExch + PendingStops < MaxExch
  /\ isRecording' = [isRecording EXCEPT ![s] = FALSE]
  /\ isPaused' = [isPaused EXCEPT ![s] = FALSE]
  /\ IF platform = "web"
       THEN IF mrState[s] = "recording"
              THEN /\ mrState' = [mrState EXCEPT ![s] = "inactive"]
                   /\ stopPc' = [stopPc EXCEPT ![s] = "onstop"]
              ELSE UNCHANGED <<mrState, stopPc>>
       ELSE /\ stopPc' = IF recordingRef[s] = "null"
                           THEN stopPc
                           ELSE [stopPc EXCEPT ![s] = "unload"]
            /\ UNCHANGED mrState
  /\ pressConv' = [pressConv EXCEPT ![s] = IF stopPc'[s] = "none" THEN NoConv
                                             ELSE conversationId]
  /\ UNCHANGED <<detailVars, platform, clock, appVars, permissionGranted, recordingRef>>

\* web: mediaRecorder.onstop builds the File and calls onRecordingComplete
WebOnStop(s) ==
  /\ stopPc[s] = "onstop"
  /\ stopPc' = [stopPc EXCEPT ![s] = "none"]
  /\ pressConv' = [pressConv EXCEPT ![s] = NoConv]
  /\ \E now \in Now : HandleVoiceMessage(s, now)
  /\ UNCHANGED <<permissionGranted, isRecording, isPaused, mrState,
                 recordingRef>>

\* native: stopAndUnloadAsync resolves (uri read, recordingRef cleared, then
\* `await getInfoAsync(uri)`) or rejects (caught)
NativeUnload(s, ok) ==
  /\ stopPc[s] = "unload"
  /\ stopPc' = [stopPc EXCEPT ![s] = IF ok THEN "info" ELSE "none"]
  /\ recordingRef' = IF ok THEN [recordingRef EXCEPT ![s] = "null"] ELSE recordingRef
  /\ pressConv' = IF ok THEN pressConv ELSE [pressConv EXCEPT ![s] = NoConv]
  /\ UNCHANGED <<detailVars, platform, clock, appVars, permissionGranted, isRecording,
                 isPaused, mrState>>

\* native: getInfoAsync resolves: onRecordingComplete(audioData)
NativeInfoOk(s) ==
  /\ stopPc[s] = "info"
  /\ stopPc' = [stopPc EXCEPT ![s] = "none"]
  /\ pressConv' = [pressConv EXCEPT ![s] = NoConv]
  /\ \E now \in Now : HandleVoiceMessage(s, now)
  /\ UNCHANGED <<permissionGranted, isRecording, isPaused, mrState,
                 recordingRef>>

\* native: getInfoAsync rejects (caught, nothing delivered)
NativeInfoFail(s) ==
  /\ stopPc[s] = "info"
  /\ stopPc' = [stopPc EXCEPT ![s] = "none"]
  /\ pressConv' = [pressConv EXCEPT ![s] = NoConv]
  /\ UNCHANGED <<detailVars, platform, clock, appVars, permissionGranted, isRecording,
                 isPaused, mrState, recordingRef>>

RecorderStep(s) ==
  \/ StartRecording(s)
  \/ PauseRecording(s)
  \/ ResumeRecording(s)
  \/ StopRecording(s)
  \/ WebOnStop(s)
  \/ \E ok \in BOOLEAN : NativeUnload(s, ok)
  \/ NativeInfoOk(s)
  \/ NativeInfoFail(s)

----------------------------------------------------------------------------
(* One VoiceRecorder instance with all its state (RecSpec, RecApiSpec).    *)
(* `recorder` holds the component's state and refs, the state of its       *)
(* capture backend, the calls it is awaiting and three counters of what    *)
(* has happened to it.                                                     *)

\* a state setter called after the unmount changes nothing; refs still change
Committed(r, r2) ==
  IF r.mounted
    THEN r2
    ELSE [r2 EXCEPT !.permissionGranted = r.permissionGranted,
                    !.isRecording = r.isRecording,
                    !.isPaused = r.isPaused,
                    !.recordingTime = r.recordingTime]

\* timerRef.current = setInterval(...): the interval held before keeps running
SetInterval(r) ==
  [r EXCEPT !.leakedTimers = IF r.timerRef = "live" THEN @ + 1 ELSE @,
            !.timerRef = "live"]

\* if (timerRef.current) clearInterval(timerRef.current)
ClearInterval(r) ==
  [r EXCEPT !.timerRef = IF @ = "live" THEN "cleared" ELSE @]

\* the number of running intervals
Tickers(r) == (IF r.timerRef = "live" THEN 1 ELSE 0) + r.leakedTimers

\* the capture sessions of this recorder that are recording or paused
Capturing(r) ==
  (IF r.mediaRecorderRef \in {"recording", "paused"} THEN 1 ELSE 0)
  + (IF r.recordingRef \in {"recording", "paused"} THEN 1 ELSE 0)
  + r.orphanSessions

\* the record button is rendered and enabled
StartRendered(r) ==
  /\ r.mounted
  /\ r.permissionGranted
  /\ ~r.isRecording
  /\ ~ChatScreenProps.isProcessing

\* the pause / resume / stop controls are rendered
ControlsRendered(r) == r.mounted /\ r.permissionGranted /\ r.isRecording

RecFrame ==
  UNCHANGED <<platform, clock, appVars, recVars, player, history, activePanel,
              convLoads, loadFailed, freshConv>>

\* requestPermissions() up to its await
requestPermissions(r) == [r EXCEPT !.permReqs = @ + 1]

\* setIsRecording(true); setRecordingTime(0); timerRef.current = setInterval(...)
Started(r) == SetInterval([r EXCEPT !.isRecording = TRUE, !.recordingTime = 0])

\* a startRecording that would go on to the backend without the permission
startRecording_Unchecked(r) ==
  IF platform = "web"
    THEN IF r.mediaRecorderRef \in {"null", "inactive"}
           THEN Started([r EXCEPT !.audioChunks = 0, !.starts = @ + 1,
                                  !.mediaRecorderRef = "recording"])
           ELSE [r EXCEPT !.audioChunks = 0, !.starts = @ + 1]
    ELSE [r EXCEPT !.startCalls = @ + 1, !.starts = @ + 1]

\* startRecording() up to its first await or its end.  web: start() throws
\* unless the MediaRecorder is 'inactive' (caught: alert).  native: awaits
\* setAudioModeAsync, then createAsync.
startRecording(r) ==
  IF ~r.permissionGranted
    THEN requestPermissions(r)
    ELSE IF platform = "web"
           THEN IF r.mediaRecorderRef = "inactive"
                  THEN Started([r EXCEPT !.audioChunks = 0, !.starts = @ + 1,
                                         !.mediaRecorderRef = "recording"])
                  ELSE [r EXCEPT !.audioChunks = 0, !.starts = @ + 1]
           ELSE [r EXCEPT !.startCalls = @ + 1, !.starts = @ + 1]

\* stopRecording() up to its first await or its end
stopRecording(r) ==
  LET c == [ClearInterval(r) EXCEPT
              !.isRecording = FALSE, !.isPaused = FALSE,
              !.stops = IF r.isRecording THEN @ + 1 ELSE @]
  IN IF platform = "web"
       THEN IF c.mediaRecorderRef = "recording"
              THEN [c EXCEPT !.mediaRecorderRef = "inactive", !.stopPc = "data"]
              ELSE c
       ELSE IF c.recordingRef = "null"
              THEN c
              ELSE [c EXCEPT !.stopPc = "unload"]

\* pauseRecording(); ok: pauseAsync resolves (native)
pauseRecording(r, ok) ==
  LET c == [ClearInterval(r) EXCEPT !.isPaused = TRUE]
  IN IF platform = "web"
       THEN [c EXCEPT !.mediaRecorderRef = IF @ = "recording" THEN "paused" ELSE @]
       ELSE [c EXCEPT !.recordingRef = IF @ = "recording" /\ ok THEN "paused" ELSE @,
                      !.rejected = @ \/ (c.recordingRef # "null" /\ ~ok)]

\* resumeRecording(); ok: startAsync resolves (native)
resumeRecording(r, ok) ==
  LET c == SetInterval([r EXCEPT !.isPaused = FALSE])
  IN IF platform = "web"
       THEN [c EXCEPT !.mediaRecorderRef = IF @ = "paused" THEN "recording" ELSE @]
       ELSE [c EXCEPT !.recordingRef = IF @ = "paused" /\ ok THEN "recording" ELSE @,
                      !.rejected = @ \/ (c.recordingRef # "null" /\ ~ok)]

\* the cleanup of the mount effect; ok: the unawaited stopAndUnloadAsync
\* resolves (native)
Cleanup(r, ok) ==
  LET c == [ClearInterval(r) EXCEPT !.mounted = FALSE]
  IN IF platform = "web"
       THEN IF c.mediaRecorderRef = "recording"
              THEN [c EXCEPT !.mediaRecorderRef = "inactive", !.stopPc = "data"]
              ELSE c
       ELSE [c EXCEPT !.recordingRef =
                        IF @ \in {"recording", "paused"} /\ ok THEN "unloaded" ELSE @,
                      !.rejected = @ \/ (c.recordingRef # "null" /\ ~ok)]

\* the permission button, rendered while !permissionGranted
PermissionPress ==
  /\ recorder.mounted
  /\ ~recorder.permissionGranted
  /\ recorder.permReqs < MaxPending
  /\ recorder' = requestPermissions(recorder)
  /\ RecFrame

\* a pending requestPermissions is answered.  web, granted: a new
\* MediaRecorder replaces the one held, with the handlers attached
PermissionAnswered(granted) ==
  /\ recorder.permReqs > 0
  /\ LET r == [recorder EXCEPT !.permReqs = @ - 1]
     IN recorder' =
          Committed(recorder,
            IF granted
              THEN IF platform = "web"
                     THEN [r EXCEPT !.permissionGranted = TRUE,
                                    !.mediaRecorderRef = "inactive",
                                    !.orphanSessions =
                                       IF r.mediaRecorderRef \in {"recording", "paused"}
                                         THEN @ + 1 ELSE @]
                     ELSE [r EXCEPT !.permissionGranted = TRUE]
              ELSE [r EXCEPT !.permissionGranted = FALSE, !.denied = TRUE])
  /\ RecFrame

\* the record button.  A recording is started again only after the previous
\* stop has run to its end.
StartPress ==
  /\ StartRendered(recorder)
  /\ recorder.stopPc = "none"
  /\ recorder.starts < MaxStarts
  /\ recorder.startCalls < MaxPending
  /\ recorder' = startRecording(recorder)
  /\ RecFrame

\* native: setAudioModeAsync and createAsync resolve
CreateOk ==
  /\ recorder.startCalls > 0
  /\ LET r == [recorder EXCEPT
                 !.startCalls = @ - 1,
                 !.recordingRef = "recording",
                 !.orphanSessions =
                    IF recorder.recordingRef \in {"recording", "paused"}
                      THEN @ + 1 ELSE @]
     IN recorder' = Committed(recorder, Started(r))
  /\ RecFrame

\* native: setAudioModeAsync or createAsync rejects (caught: alert)
CreateFail ==
  /\ recorder.startCalls > 0
  /\ recorder' = [recorder EXCEPT !.startCalls = @ - 1, !.rejected = TRUE]
  /\ RecFrame

\* one running interval fires: setRecordingTime((prev) => prev + 1)
Tick ==
  /\ recorder.mounted
  /\ Tickers(recorder) > 0
  /\ recorder.recordingTime < MaxTicks
  /\ recorder' = [recorder EXCEPT !.recordingTime = @ + 1]
  /\ RecFrame

PausePress ==
  /\ ControlsRendered(recorder)
  /\ ~recorder.isPaused
  /\ \E ok \in BOOLEAN : recorder' = pauseRecording(recorder, ok)
  /\ RecFrame

ResumePress ==
  /\ ControlsRendered(recorder)
  /\ recorder.isPaused
  /\ \E ok \in BOOLEAN : recorder' = resumeRecording(recorder, ok)
  /\ RecFrame

\* the stop ("send") button
StopPress ==
  /\ ControlsRendered(recorder)
  /\ recorder.stopPc = "none"
  /\ recorder' = stopRecording(recorder)
  /\ RecFrame

\* web: the dataavailable event of a stopped MediaRecorder
ondataavailable ==
  /\ recorder.stopPc = "data"
  /\ recorder' = [recorder EXCEPT !.audioChunks = @ + 1, !.stopPc = "onstop"]
  /\ RecFrame

\* web: the stop event: the File is built and onRecordingComplete is called
onstop ==
  /\ recorder.stopPc = "onstop"
  /\ recorder' = [recorder EXCEPT !.delivered = @ + 1, !.audioChunks = 0,
                                  !.stopPc = "none"]
  /\ RecFrame

\* native: stopAndUnloadAsync resolves: getURI(), recordingRef.current = null,
\* then `await getInfoAsync(uri)`
UnloadOk ==
  /\ recorder.stopPc = "unload"
  /\ recorder' = [recorder EXCEPT !.recordingRef = "null", !.stopPc = "info"]
  /\ RecFrame

\* native: stopAndUnloadAsync rejects (caught)
UnloadFail ==
  /\ recorder.stopPc = "unload"
  /\ recorder' = [recorder EXCEPT !.stopPc = "none", !.rejected = TRUE]
  /\ RecFrame

\* native: getInfoAsync resolves: onRecordingComplete(audioData)
InfoOk ==
  /\ recorder.stopPc = "info"
  /\ recorder' = [recorder EXCEPT !.delivered = @ + 1, !.stopPc = "none"]
  /\ RecFrame

\* native: getInfoAsync rejects (caught)
InfoFail ==
  /\ recorder.stopPc = "info"
  /\ recorder' = [recorder EXCEPT !.stopPc = "none", !.rejected = TRUE]
  /\ RecFrame

\* the component is unmounted
Unmount ==
  /\ recorder.mounted
  /\ \E ok \in BOOLEAN : recorder' = Cleanup(recorder, ok)
  /\ RecFrame

\* startRecording called where the record button is not offered
StartCall ==
  /\ recorder.mounted
  /\ ~StartRendered(recorder)
  /\ recorder.starts < MaxStarts
  /\ recorder.startCalls < MaxPending
  /\ recorder.permReqs < MaxPending
  /\ recorder' = startRecording(recorder)
  /\ RecFrame

\* stopRecording called where the stop button is not offered
StopCall ==
  /\ recorder.mounted
  /\ ~ControlsRendered(recorder)
  /\ recorder.stopPc = "none"
  /\ recorder' = stopRecording(recorder)
  /\ RecFrame

RecNext ==
  \/ PermissionPress
  \/ \E granted \in BOOLEAN : PermissionAnswered(granted)
  \/ StartPress
  \/ CreateOk
  \/ CreateFail
  \/ Tick
  \/ PausePress
  \/ ResumePress
  \/ StopPress
  \/ ondataavailable
  \/ onstop
  \/ UnloadOk
  \/ UnloadFail
  \/ InfoOk
  \/ InfoFail
  \/ Unmount

RecSpec == Init /\ [][RecNext]_vars

RecApiSpec == Init /\ [][RecNext \/ StartCall \/ StopCall]_vars

----------------------------------------------------------------------------
(* Playback (PlaySpec): one ChatMessage whose message carries an audio     *)
(* handle, and the auto-play effect of one EmotionCharacterPanel.          *)
(* `player.msg` and `player.panel` hold each component's state, the sounds *)
(* it has created and the creations it is awaiting.                        *)

PlayFrame ==
  UNCHANGED <<platform, clock, appVars, recVars, recorder, history, activePanel,
              convLoads, loadFailed, freshConv>>

\* a state setter of an unmounted ChatMessage changes nothing
MsgCommitted(m, m2) ==
  IF m.mounted THEN m2 ELSE [m2 EXCEPT !.isPlayingAudio = m.isPlayingAudio]

\* a playAudio that would not look at isPlayingAudio
playAudio_Unguarded(m) ==
  [m EXCEPT !.isPlayingAudio = TRUE, !.loading = @ + 1, !.created = @ + 1]

\* ChatMessage.playAudio() up to `await Audio.Sound.createAsync`
playAudio(m) ==
  IF m.audioUrl /\ ~m.isPlayingAudio
    THEN [m EXCEPT !.isPlayingAudio = TRUE, !.loading = @ + 1, !.created = @ + 1]
    ELSE m

\* the audio button: rendered for a message with audioUrl, disabled={isPlayingAudio}
PlayPress ==
  /\ player.msg.mounted
  /\ player.msg.audioUrl
  /\ ~player.msg.isPlayingAudio
  /\ player.msg.created < MaxPlays
  /\ player' = [player EXCEPT !.msg = playAudio(player.msg)]
  /\ PlayFrame

\* playAudio called while the audio button is disabled
PlayCall ==
  /\ player.msg.mounted
  /\ player.msg.isPlayingAudio
  /\ player.msg.created < MaxPlays
  /\ player' = [player EXCEPT !.msg = [playAudio(player.msg) EXCEPT !.recalled = TRUE]]
  /\ PlayFrame

\* createAsync resolves: setSound, the status callback is attached, the
\* sound plays
MsgCreateOk ==
  /\ player.msg.loading > 0
  /\ player' = [player EXCEPT !.msg.loading = @ - 1, !.msg.playing = @ + 1]
  /\ PlayFrame

\* createAsync rejects: catch, setIsPlayingAudio(false)
MsgCreateFail ==
  /\ player.msg.loading > 0
  /\ player' = [player EXCEPT !.msg =
                  MsgCommitted(player.msg,
                    [player.msg EXCEPT !.loading = @ - 1, !.isPlayingAudio = FALSE])]
  /\ PlayFrame

\* status.didJustFinish of a playing sound: setIsPlayingAudio(false),
\* audioSound.unloadAsync()
MsgFinish ==
  /\ player.msg.playing > 0
  /\ player' = [player EXCEPT !.msg =
                  MsgCommitted(player.msg,
                    [player.msg EXCEPT !.playing = @ - 1, !.isPlayingAudio = FALSE,
                                       !.completed = @ + 1, !.released = @ + 1])]
  /\ PlayFrame

\* the ChatMessage is unmounted (its message leaves the list); the component
\* has no effect and so no cleanup
MsgUnmount ==
  /\ player.msg.mounted
  /\ player' = [player EXCEPT !.msg.mounted = FALSE]
  /\ PlayFrame

\* the cleanup of the auto-play effect
PanelCleanup(p) ==
  [p EXCEPT !.soundRef = "null", !.released = IF p.soundRef = "live" THEN @ + 1 ELSE @]

\* the body of the auto-play effect up to `await Audio.Sound.createAsync`
PanelPlayAudio(p) ==
  IF p.audioUrl # 0 /\ ~p.isProcessing /\ p.isActive
    THEN [PanelCleanup(p) EXCEPT !.loading = @ + 1, !.created = @ + 1]
    ELSE p

\* the sounds of the panel that are loaded or playing
PanelLive(p) == (IF p.soundRef = "live" THEN 1 ELSE 0) + p.strays

\* one of the dependencies [audioUrl, isProcessing, isActive] changes: the
\* cleanup of the last run, then the effect
PanelDepsChange ==
  /\ player.panel.mounted
  /\ player.panel.created < MaxPlays
  /\ \E u \in 0..MaxUrls, pr \in BOOLEAN, a \in BOOLEAN :
       /\ <<u, pr, a>> # <<player.panel.audioUrl, player.panel.isProcessing,
                          player.panel.isActive>>
       /\ player' = [player EXCEPT !.panel =
                       PanelPlayAudio([PanelCleanup(player.panel) EXCEPT
                                         !.audioUrl = u, !.isProcessing = pr,
                                         !.isActive = a])]
  /\ PlayFrame

\* createAsync resolves: soundRef.current = sound, the sound plays; the
\* sound soundRef held is no longer referenced
PanelCreateOk ==
  /\ player.panel.loading > 0
  /\ player' = [player EXCEPT
                  !.panel.loading = @ - 1,
                  !.panel.strays = IF player.panel.soundRef = "live" THEN @ + 1 ELSE @,
                  !.panel.soundRef = "live"]
  /\ PlayFrame

\* createAsync rejects (caught)
PanelCreateFail ==
  /\ player.panel.loading > 0
  /\ player' = [player EXCEPT !.panel.loading = @ - 1]
  /\ PlayFrame

\* status.didJustFinish of the sound soundRef holds: sound.unloadAsync(),
\* soundRef.current = null
PanelFinishHeld ==
  /\ player.panel.soundRef = "live"
  /\ player' = [player EXCEPT !.panel.soundRef = "null", !.panel.released = @ + 1]
  /\ PlayFrame

\* status.didJustFinish of a sound soundRef no longer holds: it is unloaded
\* and soundRef.current is set to null all the same
PanelFinishStray ==
  /\ player.panel.strays > 0
  /\ player' = [player EXCEPT
                  !.panel.strays = IF player.panel.soundRef = "live" THEN @ ELSE @ - 1,
                  !.panel.soundRef = "null",
                  !.panel.released = @ + 1]
  /\ PlayFrame

\* the panel is unmounted: the cleanup of the last run
PanelUnmount ==
  /\ player.panel.mounted
  /\ player' = [player EXCEPT !.panel = [PanelCleanup(player.panel) EXCEPT
                                           !.mounted = FALSE]]
  /\ PlayFrame

PlayNext ==
  \/ PlayPress
  \/ PlayCall
  \/ MsgCreateOk
  \/ MsgCreateFail
  \/ MsgFinish
  \/ MsgUnmount
  \/ PanelDepsChange
  \/ PanelCreateOk
  \/ PanelCreateFail
  \/ PanelFinishHeld
  \/ PanelFinishStray
  \/ PanelUnmount

PlaySpec == Init /\ [][PlayNext]_vars

----------------------------------------------------------------------------
(* ConversationHistory (HistSpec, SelectSpec): one instance, the history   *)
(* service and the two callbacks the App passes it (loadConversation as    *)
(* onSelectConversation, startNewConversation as onNewConversation).       *)
(* `history` holds the component's state, the conversations the service    *)
(* holds, the requests in flight and what the user has been shown.         *)

HistFrame ==
  UNCHANGED <<platform, clock, appVars, recVars, recorder, player, activePanel,
              convLoads, loadFailed, freshConv>>

\* the ids of a list of summaries
Ids(list) == {list[i] : i \in 1..Len(list)}

\* list without its i-th element
RemoveAt(list, i) == SubSeq(list, 1, i - 1) \o SubSeq(list, i + 1, Len(list))

\* a confirmed delete that would leave the list as it is
Filtered_Kept(list, id) == list

\* conversations.filter((c) => c.id !== conversationId)
Filtered(list, id) == SelectSeq(list, LAMBDA c : c # id)

\* the App calls conversationHistoryRef.current.loadConversations()
Refresh ==
  /\ history.issued < MaxRequests
  /\ history' = [loadConversations(history) EXCEPT !.issued = @ + 1]
  /\ HistFrame

\* a list request is answered with success: setConversations(data), then
\* finally setIsLoading(false)
ListOk(i) ==
  /\ i \in 1..Len(history.loads)
  /\ history' = [history EXCEPT !.conversations = history.loads[i],
                                !.loads = RemoveAt(@, i),
                                !.isLoading = FALSE]
  /\ HistFrame

\* a loadConversations that would empty the list when its request fails
ListFailed_Clears(h, i) ==
  [h EXCEPT !.conversations = <<>>, !.loads = RemoveAt(@, i), !.isLoading = FALSE]

\* loadConversations after a response that is not ok, or from catch: only
\* finally { setIsLoading(false) }
ListFailed(h, i) == [h EXCEPT !.loads = RemoveAt(@, i), !.isLoading = FALSE]

\* a list request is answered with a non-success status or throws
ListFail(i) ==
  /\ i \in 1..Len(history.loads)
  /\ history' = ListFailed(history, i)
  /\ HistFrame

\* what window.confirm may do: return true, return false, or throw where
\* the runtime has no window.confirm (native), which ends the call
Answers == IF platform = "web" THEN {"yes", "no"} ELSE {"yes", "no", "throws"}

\* the "x" of an entry is pressed (the list is rendered while !isLoading) and
\* window.confirm is answered: deleteConversation(id) up to its fetch.  The
\* call keeps the conversations and the currentConversationId of the render
\* in which the button was pressed.
DeletePress(id, answer) ==
  /\ ~history.isLoading
  /\ id \in Ids(history.conversations)
  /\ history.issued < MaxRequests
  /\ history' =
       IF answer = "yes"
         THEN [history EXCEPT
                 !.issued = @ + 1,
                 !.last = "sent",
                 !.deletes = Append(@, [id |-> id,
                                        conversations |-> history.conversations,
                                        current |-> conversationId])]
         ELSE [history EXCEPT !.issued = @ + 1, !.last = "cancelled"]
  /\ HistFrame

\* the service deletes the conversation and answers with success:
\* setConversations(conversations.filter(...)), and onNewConversation(),
\* which is the App's startNewConversation, if the deleted conversation was
\* the current one of the render the button was pressed in
DeleteOk(i) ==
  /\ i \in 1..Len(history.deletes)
  /\ history.deletes[i].id \in history.server
  /\ LET d == history.deletes[i]
     IN /\ history' = [history EXCEPT
                         !.server = @ \ {d.id},
                         !.conversations = Filtered(d.conversations, d.id),
                         !.newCalls = IF d.id = d.current THEN @ + 1 ELSE @,
                         !.deletes = RemoveAt(@, i),
                         !.last = "ok",
                         !.answered = Append(@, <<d.id, "ok">>)]
        /\ IF d.id = d.current
             THEN CanStartNew /\ startNewConversation
             ELSE UNCHANGED newConvVars
  /\ UNCHANGED <<platform, clock, isProcessing, lastUsedPanel, userTranscript,
                 llmResponse, ttsAudioUrl, exch, nExch, recVars, compVars,
                 activePanel, convLoads, loadFailed>>

\* a failure branch that would empty the list
DeleteFailed_Resets(h, i, how) ==
  [h EXCEPT !.conversations = <<>>,
            !.deletes = RemoveAt(@, i),
            !.notices = @ + 1,
            !.last = how,
            !.answered = Append(@, <<h.deletes[i].id, how>>)]

\* the else branch and the catch block of deleteConversation: alert(...)
DeleteFailed(h, i, how) ==
  [h EXCEPT !.deletes = RemoveAt(@, i),
            !.notices = @ + 1,
            !.last = how,
            !.answered = Append(@, <<h.deletes[i].id, how>>)]

\* the service answers with a non-success status (always so when it does not
\* hold the conversation): alert
DeleteNotOk(i) ==
  /\ i \in 1..Len(history.deletes)
  /\ history' = DeleteFailed(history, i, "notok")
  /\ HistFrame

\* the request throws: alert
DeleteThrows(i) ==
  /\ i \in 1..Len(history.deletes)
  /\ history' = DeleteFailed(history, i, "threw")
  /\ HistFrame

\* an exchange of the App makes the service hold one more conversation
ServiceAdds(id) ==
  /\ id \notin history.server
  /\ id \notin Ids(history.conversations)
  /\ \A i \in 1..Len(history.loads) : id \notin Ids(history.loads[i])
  /\ history' = [history EXCEPT !.server = @ \cup {id}]
  /\ HistFrame

\* a message of a stored conversation as get_conversation returns it and
\* loadConversation converts it: the id is the service's, unlike every
\* Date.now(); there is no audioUrl
StoredMessage(k, isUser, emotion) ==
  [id |-> 0 - k, text |-> <<"stored", k>>, isUser |-> isUser, emotion |-> emotion,
   audioUrl |-> Null]

StoredEmotions == {"happy"}

\* the message lists get_conversation may return, oldest message first
StoredLists ==
  {<<StoredMessage(1, TRUE, emotion), StoredMessage(2, FALSE, NoEmotion)>> :
     emotion \in StoredEmotions \cup {NoEmotion}}

\* Array.prototype.reverse
Reverse(list) == [i \in 1..Len(list) |-> list[Len(list) + 1 - i]]

\* list.find((m) => m.isUser && m.emotion): the emotion of the first such
\* message, NoEmotion when there is none
FindUserEmotion(list) ==
  LET hits == {i \in 1..Len(list) : list[i].isUser /\ list[i].emotion # NoEmotion}
  IN IF hits = {}
       THEN NoEmotion
       ELSE list[CHOOSE i \in hits : \A j \in hits : i <= j].emotion

SessFrame ==
  UNCHANGED <<platform, clock, isProcessing, lastUsedPanel, userTranscript,
              llmResponse, ttsAudioUrl, exch, nExch, recVars, compVars, history,
              freshConv>>

\* an entry of the list is pressed: onSelectConversation(item.id), which is
\* loadConversation(convId) up to its fetch
SelectConversation(id) ==
  /\ ~history.isLoading
  /\ id \in Ids(history.conversations)
  /\ Len(convLoads) < MaxLoads
  /\ convLoads' = Append(convLoads, id)
  /\ UNCHANGED <<activePanel, loadFailed, messages, conversationId, currentEmotion>>
  /\ SessFrame

\* the fetch of a loadConversation is answered with success and the
\* messages data: setConversationId, setMessages(displayMessages), then
\* displayMessages.reverse(), which reverses the array just handed to
\* setMessages, and setCurrentEmotion if a user message carries an emotion
LoadOk(i, data) ==
  /\ i \in 1..Len(convLoads)
  /\ convLoads[i] \in history.server
  /\ conversationId' = convLoads[i]
  /\ messages' = Reverse(data)
  /\ currentEmotion' = IF FindUserEmotion(Reverse(data)) # NoEmotion
                         THEN FindUserEmotion(Reverse(data))
                         ELSE currentEmotion
  /\ convLoads' = RemoveAt(convLoads, i)
  /\ loadFailed' = FALSE
  /\ UNCHANGED activePanel
  /\ SessFrame

LoadFailed_Adopted(current, loaded) == loaded

\* the conversationId after a loadConversation(loaded) that did not
\* succeed: setConversationId is called in the response.ok branch only
LoadFailed(current, loaded) == current

\* the fetch is answered with a non-success status (nothing is done) or
\* throws (caught: alert)
LoadFail(i) ==
  /\ i \in 1..Len(convLoads)
  /\ convLoads' = RemoveAt(convLoads, i)
  /\ loadFailed' = TRUE
  /\ conversationId' = LoadFailed(conversationId, convLoads[i])
  /\ UNCHANGED <<activePanel, messages, currentEmotion>>
  /\ SessFrame

HistNext ==
  \/ Refresh
  \/ \E i \in 1..MaxRequests : ListOk(i)
  \/ \E i \in 1..MaxRequests : ListFail(i)
  \/ \E id \in HistIds, answer \in Answers : DeletePress(id, answer)
  \/ \E i \in 1..MaxRequests : DeleteOk(i)
  \/ \E i \in 1..MaxRequests : DeleteNotOk(i)
  \/ \E i \in 1..MaxRequests : DeleteThrows(i)
  \/ \E id \in HistIds : ServiceAdds(id)

HistSpec == Init /\ [][HistNext]_vars

\* the ConversationHistory together with the loadConversation it calls
SelectNext ==
  \/ HistNext
  \/ \E id \in HistIds : SelectConversation(id)
  \/ \E i \in 1..MaxLoads, data \in StoredLists : LoadOk(i, data)
  \/ \E i \in 1..MaxLoads : LoadFail(i)

SelectSpec == Init /\ [][SelectNext]_vars

----------------------------------------------------------------------------
(* The App with its history (SessSpec): the exchanges, whose refresh the   *)
(* history service answers, the session changes made from the list         *)
(* (select, "+") and the panel switch.                                     *)

\* the arrow button of the panel shown: setActivePanel(...)
SwitchPanel ==
  /\ activePanel' = IF activePanel = "emotion" THEN "chat" ELSE "emotion"
  /\ UNCHANGED <<platform, clock, appVars, recVars, compVars, history, convLoads,
                 loadFailed,
                 freshConv>>

\* the VoiceRecorder of surface s calls onRecordingComplete(audioData) for a
\* recording made while its record button was enabled; what the recorder
\* itself does, and the recordings that end during an exchange, are left to
\* Spec
VoiceMessage(s) ==
  /\ ~RecorderIsProcessing(s)
  /\ ~isProcessing
  /\ \E now \in Now : HandleVoiceMessage(s, now)
  /\ UNCHANGED recVars

SessNext ==
  \/ StartNewConversation
  \/ TextSubmit
  \/ \E s \in Surfaces : VoiceMessage(s)
  \/ \E e \in ExchIds : ExchStep(e)
  \/ SwitchPanel
  \/ \E id \in HistIds : SelectConversation(id)
  \/ \E i \in 1..MaxLoads, data \in StoredLists : LoadOk(i, data)
  \/ \E i \in 1..MaxLoads : LoadFail(i)
  \/ \E i \in 1..Len(history.loads) : ListOk(i)
  \/ \E i \in 1..Len(history.loads) : ListFail(i)

SessSpec == Init /\ [][SessNext]_vars

----------------------------------------------------------------------------
Next ==
  \/ StartNewConversation
  \/ TextSubmit
  \/ \E e \in ExchIds : ExchStep(e)
  \/ \E s \in Surfaces : RecorderStep(s)

Spec == Init /\ [][Next]_vars

----------------------------------------------------------------------------
(* Properties *)

\* the invocation e has just been entered in this step
Begins(e) == exch[e].pc = "idle" /\ exch'[e].pc # "idle"

\* C1: at most one exchange is in flight at any time: no orchestrator is
\* entered while an exchange begun earlier has not reached its final step.
C1_OneExchangeInFlight ==
  Cardinality({e \in ExchIds : InFlight(e)}) <= 1

\* C2: whenever an exchange begins, lastUsedPanel is set to the surface whose
\* control initiated it.
C2_FocusIsInitiatingSurface ==
  [][\A e \in ExchIds : Begins(e) => lastUsedPanel' = exch'[e].origin]_vars

\* what a surface is passed when it is shown nothing of an exchange
NoTransients ==
  [isProcessing |-> FALSE, userTranscript |-> EmptyText, llmResponse |-> EmptyText,
   audioUrl |-> Null]

\* C3: while an exchange is in flight its transient values (live transcript,
\* live reply, live audio handle, in-progress indicator) are passed only to
\* the surface that initiated it; the other surface is passed empty/null.
C3_TransientsOnlyOnInitiatingSurface ==
  \A e \in ExchIds :
    InFlight(e) =>
      /\ exch[e].origin = "chat" => EmotionPanelProps = NoTransients
      /\ exch[e].origin = "emotion" => ~ChatScreenProps.isProcessing

C5_PlaceholderUpdatedInPlace ==
  [][\A e \in ExchIds :
       (exch[e].kind = "voice" /\ exch[e].pc = "reply" /\ exch'[e].pc = "tts") =>
         /\ Len(messages') = Len(messages)
         /\ \A i \in 1..Len(messages) :
              /\ messages'[i].id = messages[i].id
              /\ messages'[i].isUser = messages[i].isUser
              /\ messages[i].id = exch[e].uid =>
                   /\ messages'[i].text = Transcript(e)
                   /\ messages'[i].emotion = currentEmotion'
                   /\ messages'[i].emotion \in Emotions
              /\ messages[i].id # exch[e].uid => messages'[i] = messages[i]
         /\ exch[e].session = conversationId =>
              \E i \in 1..Len(messages) :
                /\ messages[i].id = exch[e].uid
                /\ messages[i].isUser
                /\ messages'[i].text = Transcript(e)]_vars

C5_Witness ==
  \E e \in ExchIds :
    /\ exch[e].kind = "voice"
    /\ exch[e].pc = "tts"
    /\ \E i \in 1..Len(messages) :
         /\ messages[i].id = exch[e].uid
         /\ messages[i].isUser
         /\ messages[i].text = Transcript(e)
         /\ messages[i].emotion \in Emotions

SynthesisPcs == {"tts", "blob", "read", "write"}

\* this step ends the synthesis attempt of invocation e
EndsSynthesis(e) == exch[e].pc \in SynthesisPcs /\ exch'[e].pc \notin SynthesisPcs

\* this step appends a message that carries an audio handle
AppendsAudio ==
  /\ Len(messages') = Len(messages) + 1
  /\ messages'[Len(messages')].audioUrl # Null

\* C6: whenever the reply request succeeded and the synthesis step then
\* fails in any way, the exchange appends an assistant Message carrying the
\* reply text with a null audio handle, and no error Message.
C6_SynthesisBestEffort ==
  [][\A e \in ExchIds :
       (EndsSynthesis(e) /\ ~AppendsAudio) =>
         /\ Len(messages') = Len(messages) + 1
         /\ messages'[Len(messages')] =
              AssistantMessage(messages'[Len(messages')].id, Reply(e), Null)]_vars

\* C7: when the reply request of a voice exchange fails, exactly one
\* fixed-text assistant error Message is appended, every message already in
\* the list (the placeholder with its interim text among them) is left as it
\* is, and the request is not issued again.
C7_ReplyFailureAppendsOneError ==
  [][\A e \in ExchIds :
       (exch[e].kind = "voice" /\ exch[e].pc = "reply" /\ exch'[e].pc = "done") =>
         /\ Len(messages') = Len(messages) + 1
         /\ SubSeq(messages', 1, Len(messages)) = messages
         /\ messages'[Len(messages')] =
              AssistantMessage(messages'[Len(messages')].id, ErrorText, Null)
         /\ exch'[e].replyResult = "fail"
         /\ exch'[e].replyReqs = 1
         /\ exch'[e].ttsReqs = 0]_vars

C7_Witness ==
  /\ \E e \in ExchIds :
       exch[e].kind = "voice" /\ exch[e].pc = "done" /\ exch[e].replyResult = "fail"
  /\ \E i \in 1..(Len(messages) - 1) :
       /\ messages[i].isUser
       /\ messages[i].text = ProcessingText
       /\ ~messages[i + 1].isUser
       /\ messages[i + 1].text = ErrorText

\* C8: every exchange that has begun eventually clears the in-progress flag,
\* given that each external call completes or fails: an invocation that has
\* not run its finally block is always waiting for a call whose completion
\* lets it go on.
C8_ExchangeCanAlwaysGoOn ==
  \A e \in ExchIds : InFlight(e) => ENABLED ExchStep(e)

\* C9 as claimed: every exchange that has ended, on whatever outcome, has
\* triggered the refresh of the history list.
C9_RefreshOnEveryOutcome ==
  \A e \in ExchIds : exch[e].pc = "done" => exch[e].refreshed

\* C9 as amended: the refresh is triggered exactly by the exchanges that end
\* by appending their assistant reply Message; an exchange that ends with
\* the error Message, or has not ended, has triggered none.
C9_RefreshIffAssistantAppended ==
  \A e \in ExchIds : exch[e].refreshed <=> (exch[e].pc = "done" /\ exch[e].result = "assistant")

C9_Witness ==
  /\ \E e \in ExchIds :
       exch[e].pc = "done" /\ exch[e].result = "assistant" /\ exch[e].refreshed
  /\ \E e \in ExchIds :
       exch[e].pc = "done" /\ exch[e].result = "error" /\ ~exch[e].refreshed

\* C10: the synthesis request is issued only after the reply request has
\* succeeded, never while it is pending and never when it failed, and an
\* exchange issues at most one reply request and one synthesis request.
C10_SynthesisAfterReply ==
  \A e \in ExchIds :
    /\ exch[e].replyReqs <= 1
    /\ exch[e].ttsReqs <= 1
    /\ exch[e].pc # "idle" => exch[e].replyReqs = 1
    /\ exch[e].pc = "reply" => exch[e].ttsReqs = 0
    /\ exch[e].replyResult = "fail" => exch[e].ttsReqs = 0
    /\ exch[e].ttsReqs = 1 <=> exch[e].replyResult = "ok"

C10_Witness ==
  /\ \E e \in ExchIds : exch[e].pc = "tts" /\ exch[e].ttsReqs = 1 /\ exch[e].replyResult = "ok"
  /\ \E e \in ExchIds : exch[e].pc = "done" /\ exch[e].ttsReqs = 0 /\ exch[e].replyResult = "fail"

----------------------------------------------------------------------------
(* Properties of the VoiceRecorder *)

\* the machine of the recorder: Idle, Recording or Paused
Machine(r) ==
  IF ~r.isRecording THEN "Idle" ELSE IF r.isPaused THEN "Paused" ELSE "Recording"

\* nothing the recorder has called is still to answer
Quiescent(r) == r.permReqs = 0 /\ r.startCalls = 0 /\ r.stopPc = "none"

\* C11: as long as no backend call rejects, every stop() made from Recording
\* or from Paused has delivered one AudioAsset or is about to, and once such
\* a stop has run to its end the machine is Idle, no capture session is
\* recording or paused, and the backend is where a start() can start it.
C11_EachStopFinalizesAndDelivers ==
  (recorder.mounted /\ ~recorder.rejected) =>
    /\ recorder.stops =
         recorder.delivered + (IF recorder.stopPc = "none" THEN 0 ELSE 1)
    /\ (Machine(recorder) = "Idle" /\ Quiescent(recorder) /\ recorder.stops > 0) =>
         /\ Capturing(recorder) = 0
         /\ platform = "web" => recorder.mediaRecorderRef = "inactive"
         /\ platform = "native" => recorder.recordingRef = "null"

\* what start() must leave alone where it is invalid: the machine, the
\* elapsed time, the ticker, the buffered chunks and the capture sessions
SessionOf(r) ==
  <<r.isRecording, r.isPaused, r.recordingTime, r.timerRef, r.leakedTimers,
    r.audioChunks, r.mediaRecorderRef, r.recordingRef, r.orphanSessions>>

C13_ElapsedTimeResetOnlyFromIdle ==
  [][recorder'.recordingTime # recorder.recordingTime =>
       \/ /\ recorder'.recordingTime = recorder.recordingTime + 1
          /\ Machine(recorder) = "Recording"
          /\ Machine(recorder') = "Recording"
       \/ /\ recorder'.recordingTime = 0
          /\ Machine(recorder) = "Idle"
          /\ Machine(recorder') = "Recording"]_vars

\* C14: startRecording called without the permission only requests it: it
\* starts no capture, no creation and no ticker and leaves the machine as it
\* is; a request being made or answered, granted or denied, changes
\* neither the machine nor the ticker nor the capture sessions nor the
\* elapsed time; and in the state a grant leaves, with the machine Idle,
\* startRecording goes on to the backend and reaches Recording (web) or
\* begins the creation whose completion is Recording (native).
C14_PermissionRequestKeepsIdle ==
  [][/\ (recorder.mounted /\ ~recorder.permissionGranted) =>
          LET r2 == startRecording(recorder)
          IN /\ r2.permReqs = recorder.permReqs + 1
             /\ SessionOf(r2) = SessionOf(recorder)
             /\ r2.startCalls = recorder.startCalls
             /\ r2.starts = recorder.starts
     /\ recorder'.permReqs # recorder.permReqs =>
          /\ Machine(recorder') = Machine(recorder)
          /\ Tickers(recorder') = Tickers(recorder)
          /\ Capturing(recorder') = Capturing(recorder)
          /\ recorder'.recordingTime = recorder.recordingTime
          /\ recorder'.startCalls = recorder.startCalls
     /\ (/\ recorder'.permReqs = recorder.permReqs - 1
         /\ recorder'.permissionGranted
         /\ recorder.mounted
         /\ Machine(recorder') = "Idle") =>
          LET r2 == startRecording(recorder')
          IN IF platform = "web"
               THEN Machine(r2) = "Recording" /\ Capturing(r2) = Capturing(recorder') + 1
               ELSE /\ r2.startCalls = recorder'.startCalls + 1
                    /\ Machine(Started(r2)) = "Recording"]_vars

\* a permission request was denied, a later one was granted, and the start
\* that followed has reached Recording
C14_Witness ==
  /\ recorder.denied
  /\ recorder.permissionGranted
  /\ ~recorder.rejected
  /\ Machine(recorder) = "Recording"
  /\ Capturing(recorder) = 1
  /\ Tickers(recorder) = 1

\* C15: once a recorder that was unmounted in Recording or in Paused (the
\* machine is frozen at the unmount) has nothing it has called still to
\* answer, no capture session of it is recording or paused and none of its
\* intervals is running, as long as no backend call has rejected.
C15_UnmountReleasesCapture ==
  (/\ ~recorder.mounted
   /\ Machine(recorder) # "Idle"
   /\ Quiescent(recorder)
   /\ ~recorder.rejected) =>
    /\ Capturing(recorder) = 0
    /\ Tickers(recorder) = 0

\* C16: in every state the recorder reaches at most one capture session of
\* it is recording or paused and at most one of its intervals is running.
C16_AtMostOneSession ==
  /\ Capturing(recorder) <= 1
  /\ Tickers(recorder) <= 1

----------------------------------------------------------------------------
(* Properties of the session id *)

\* C17: whenever a voice exchange begins, the conversationId its reply
\* request carries is the one that was current when the stop button that
\* finalized its recording was pressed.
C17_VoiceRequestCarriesCurrentId ==
  [][\A e \in ExchIds :
       (Begins(e) /\ exch'[e].kind = "voice") =>
          exch'[e].conv = pressConv[exch'[e].origin]]_vars

----------------------------------------------------------------------------
(* Properties of the playback *)

\* what holds of a ChatMessage m in every state: it has at most one sound
\* starting or playing, isPlayingAudio of a mounted one is true exactly
\* while it has one, playAudio called while isPlayingAudio is true changes
\* nothing, and every completion reported has unloaded its sound
GuardedPlayback(m) ==
  /\ m.loading + m.playing <= 1
  /\ m.mounted => (m.isPlayingAudio <=> m.loading + m.playing = 1)
  /\ m.isPlayingAudio => playAudio(m) = m
  /\ m.completed = m.released

\* C18: a second playAudio call made while the audio of the message is
\* starting or playing creates no second sound (GuardedPlayback holds before
\* and after every step), and each playback that finishes is reported once:
\* the step in which a sound finishes is the step that counts its
\* completion, unloads it and sets isPlayingAudio to false, and
\* isPlayingAudio falls in no step that does not end a sound or a creation.
C18_PlayIsGuardedAndCompletesOnce ==
  [][/\ GuardedPlayback(player.msg)
     /\ GuardedPlayback(player'.msg)
     /\ player'.msg.playing < player.msg.playing =>
          /\ player'.msg.playing = player.msg.playing - 1
          /\ player'.msg.completed = player.msg.completed + 1
          /\ player'.msg.released = player.msg.released + 1
          /\ player.msg.mounted => ~player'.msg.isPlayingAudio
     /\ player'.msg.completed # player.msg.completed =>
          player'.msg.playing = player.msg.playing - 1
     /\ (player.msg.isPlayingAudio /\ ~player'.msg.isPlayingAudio) =>
          player'.msg.loading + player'.msg.playing
            = player.msg.loading + player.msg.playing - 1]_vars

\* playAudio was called again while the audio was playing, the one playback
\* has finished and its sound has been unloaded
C18_Witness ==
  /\ player.msg.mounted
  /\ player.msg.recalled
  /\ player.msg.created = 1
  /\ player.msg.completed = 1
  /\ player.msg.released = 1
  /\ ~player.msg.isPlayingAudio

\* the sounds a component has created that are loaded or playing, or will be
MsgLive(m) == m.loading + m.playing

\* C19: once the ChatMessage is unmounted none of its sounds is loading or
\* playing, and once the EmotionCharacterPanel is unmounted none of its
\* sounds is loaded or playing and none it awaits will be.
C19_UnmountReleasesSounds ==
  /\ ~player.msg.mounted => MsgLive(player.msg) = 0
  /\ ~player.panel.mounted =>
       PanelLive(player.panel) = 0 /\ player.panel.loading = 0

----------------------------------------------------------------------------
(* Properties of the conversation history *)

\* C20: a deleteConversation(id) that the user confirms leaves the local
\* list, the service and the notices as they are until its request is
\* answered; one the user cancels changes nothing and sends nothing; when
\* the service has deleted the conversation and answered with success, the
\* list that results does not hold id and no notice is shown; when the
\* answer is a non-success status or the request throws, the list is left
\* as it is and one failure notice is shown; and an entry leaves the list
\* only in a step that completes a list request or a confirmed delete.
C20_DeleteRemovesOnConfirmedSuccess ==
  [][/\ Len(history'.deletes) > Len(history.deletes) =>
          /\ history'.conversations = history.conversations
          /\ history'.server = history.server
          /\ history'.notices = history.notices
     /\ (history'.issued # history.issued /\ history'.last = "cancelled") =>
          /\ history'.conversations = history.conversations
          /\ history'.server = history.server
          /\ history'.notices = history.notices
          /\ history'.deletes = history.deletes
     /\ Len(history'.deletes) < Len(history.deletes) =>
          IF history'.last = "ok"
            THEN \E i \in 1..Len(history.deletes) :
                   /\ history'.deletes = RemoveAt(history.deletes, i)
                   /\ history.deletes[i].id \in history.server
                   /\ history.deletes[i].id \notin history'.server
                   /\ history.deletes[i].id \notin Ids(history'.conversations)
                   /\ history'.notices = history.notices
            ELSE /\ history'.conversations = history.conversations
                 /\ history'.server = history.server
                 /\ history'.notices = history.notices + 1
     /\ \A id \in Ids(history.conversations) \ Ids(history'.conversations) :
          \/ Len(history'.loads) < Len(history.loads)
          \/ /\ Len(history'.deletes) < Len(history.deletes)
             /\ history'.last = "ok"
             /\ history'.server # history.server]_vars

\* one delete has failed with a notice and the list was left whole, and a
\* later one has been confirmed by the service and has removed its entry
C20_Witness ==
  /\ history.last = "ok"
  /\ history.notices = 1
  /\ history.deletes = <<>>
  /\ Len(history.conversations) = MaxHistIds - 2
  /\ Ids(history.conversations) = history.server

\* the delete of id was answered with success before
DeletedBefore(h, id) ==
  \E k \in 1..Len(h.answered) : h.answered[k] = <<id, "ok">>

\* C21: a deleteConversation(id) made for an id whose delete has succeeded
\* before, and which the service refuses, leaves the local list exactly as
\* the first delete (and whatever came after it) left it and shows one
\* failure notice; the first, successful, delete is the step that took the
\* entry out of the list; and the service refuses the delete of a
\* conversation it no longer holds.
C21_SecondDeleteLeavesList ==
  [][\A i \in 1..Len(history.deletes) :
       history'.deletes = RemoveAt(history.deletes, i)
         /\ Len(history'.answered) = Len(history.answered) + 1 =>
         LET id == history.deletes[i].id
             how == history'.answered[Len(history'.answered)]
         IN /\ how[1] \in Ids(history.deletes[i].conversations)
            /\ how[2] = "ok" => how[1] \notin Ids(history'.conversations)
            /\ (how = <<id, "notok">> /\ DeletedBefore(history, id)) =>
                  /\ history'.conversations = history.conversations
                  /\ history'.notices = history.notices + 1
                  /\ history'.server = history.server
            /\ (how[1] = id /\ id \notin history.server) => how[2] # "ok"]_vars

\* the same id was deleted twice: the first delete succeeded, the second
\* was refused, and the list is without the entry
C21_Witness ==
  \E id \in HistIds :
    /\ history.answered = << <<id, "ok">>, <<id, "notok">> >>
    /\ id \notin Ids(history.conversations)
    /\ history.conversations # <<>>
    /\ history.notices = 1

\* C22: a deleteConversation of the id of the active conversation that the
\* service confirms leaves the message list of the session as it was.
C22_DeleteKeepsTranscript ==
  [][\A i \in 1..Len(history.deletes) :
       (/\ history'.deletes = RemoveAt(history.deletes, i)
        /\ Len(history'.answered) = Len(history.answered) + 1
        /\ history'.last = "ok"
        /\ history.deletes[i].id = conversationId) =>
         messages' = messages]_vars

----------------------------------------------------------------------------
(* Properties of the session *)

\* C24: conversationId changes only in a step in which startNewConversation
\* runs (the id is the new one and the list is emptied) or a
\* loadConversation succeeds (the id is the one selected, which the service
\* holds); a step of an exchange, a step that begins or answers a refresh
\* of the history list and a panel switch leave it as it is.
C24_ConversationIdStable ==
  [][/\ conversationId' # conversationId =>
          \/ /\ conversationId' = freshConv
             /\ freshConv' = freshConv + 1
             /\ messages' = <<>>
          \/ \E i \in 1..Len(convLoads) :
               /\ convLoads' = RemoveAt(convLoads, i)
               /\ conversationId' = convLoads[i]
               /\ convLoads[i] \in history.server
     /\ (exch' # exch \/ history' # history \/ activePanel' # activePanel) =>
          conversationId' = conversationId]_vars

\* a voice and a text exchange have run to their end, the refresh each of
\* them began has been answered, the panel has been switched, and the
\* conversation is still the first one
C24_Witness ==
  /\ \E e \in ExchIds : exch[e].kind = "voice" /\ exch[e].pc = "done"
  /\ \E e \in ExchIds : exch[e].kind = "text" /\ exch[e].pc = "done"
  /\ \A e \in ExchIds : exch[e].refreshed
  /\ history.loads = <<>>
  /\ activePanel = "chat"
  /\ conversationId = FirstConv
  /\ freshConv = FirstConv + 1
  /\ Len(messages) = 2 * MaxExch

----------------------------------------------------------------------------
(* Properties of the message list *)

\* C23: in every state the messages of the list have pairwise distinct ids.
C23_MessageIdsDistinct ==
  \A i, j \in 1..Len(messages) : i # j => messages[i].id # messages[j].id

\* message i of the list is the placeholder of a voice exchange whose reply
\* request is pending
PendingPlaceholder(i) ==
  /\ messages[i].isUser
  /\ messages[i].text = ProcessingText
  /\ \E e \in ExchIds :
       exch[e].kind = "voice" /\ exch[e].pc = "reply" /\ exch[e].uid = messages[i].id

\* C25: in every step that is not a session change the message list does
\* not get shorter, every message keeps its position and its id, and every
\* message that is not a pending placeholder is left exactly as it is.
C25_AppendOrUpdatePlaceholderOnly ==
  [][(conversationId' = conversationId) =>
       /\ Len(messages') >= Len(messages)
       /\ \A i \in 1..Len(messages) :
            /\ messages'[i].id = messages[i].id
            /\ ~PendingPlaceholder(i) => messages'[i] = messages[i]]_vars

\* C26: a text exchange adds exactly two messages when nothing is
\* interleaved with it: the step that begins it appends the user's message
\* with the submitted text; a step it takes without ending, with no other
\* exchange stepping and no session change, leaves the list as it is; and
\* the step that ends it appends exactly one assistant-authored message,
\* the reply or the fixed error text, which follows the user's message
\* when that is still the last of the list.
C26_TextExchangeAddsTwo ==
  [][\A e \in ExchIds :
       /\ (Begins(e) /\ exch'[e].kind = "text") =>
            /\ Len(messages') = Len(messages) + 1
            /\ SubSeq(messages', 1, Len(messages)) = messages
            /\ messages'[Len(messages')] = UserMessage(exch'[e].uid, exch'[e].text)
            /\ exch'[e].text \in UserTexts
       /\ (/\ exch[e].kind = "text"
           /\ InFlight(e)
           /\ exch'[e].pc # "done"
           /\ \A o \in ExchIds \ {e} : exch'[o] = exch[o]
           /\ conversationId' = conversationId) =>
            messages' = messages
       /\ (exch[e].kind = "text" /\ InFlight(e) /\ exch'[e].pc = "done") =>
            /\ Len(messages') = Len(messages) + 1
            /\ SubSeq(messages', 1, Len(messages)) = messages
            /\ ~messages'[Len(messages')].isUser
            /\ messages'[Len(messages')].text \in {Reply(e), ErrorText}
            /\ messages'[Len(messages')].text = ErrorText <=> exch'[e].result = "error"]_vars

\* a text exchange begun on the empty list of a new session has ended with
\* its reply: the list holds the user's message and the reply, and nothing
\* else
C26_Witness ==
  /\ nExch = 1
  /\ exch[1].kind = "text"
  /\ exch[1].pc = "done"
  /\ Len(messages) = 2
  /\ messages[1].isUser
  /\ messages[1].text \in UserTexts
  /\ messages[2] = AssistantMessage(messages[2].id, Reply(1), messages[2].audioUrl)

\* C27: while a voice exchange is in flight the live reply text is empty,
\* the live audio handle is null and the list holds no assistant message
\* with the reply of that exchange.
C27_AssistantSideAtomic ==
  \A e \in ExchIds :
    (exch[e].kind = "voice" /\ InFlight(e)) =>
      /\ llmResponse = EmptyText
      /\ ttsAudioUrl = Null
      /\ \A i \in 1..Len(messages) :
           ~(messages[i].text = Reply(e) /\ ~messages[i].isUser)

\* this step is one of the text exchange e: it begins it or takes it on
TextStep(e) ==
  /\ exch'[e] # exch[e]
  /\ exch'[e].kind = "text"

\* C28: a step of a text exchange leaves currentEmotion and the emotion of
\* every message already in the list as they are and appends a message
\* without emotion, and the user's message of a text exchange, once in the
\* list with the submitted text, is the same after every step that is not
\* a session change.
C28_TextExchangeHasNoEmotionNoUpdate ==
  [][/\ \A e \in ExchIds :
          TextStep(e) =>
            /\ currentEmotion' = currentEmotion
            /\ \A i \in 1..Len(messages) : messages'[i].emotion = messages[i].emotion
            /\ \A i \in (Len(messages) + 1)..Len(messages') :
                 messages'[i].emotion = NoEmotion
     /\ \A i \in 1..Len(messages) :
          (/\ messages[i].isUser
           /\ messages[i].text \in UserTexts
           /\ conversationId' = conversationId) =>
            messages'[i] = messages[i]]_vars

\* C29: the step that ends an exchange with its reply clears isProcessing
\* and begins the refresh without waiting for it (the list request is
\* pending in the state it leaves, the summaries are as they were); and a
\* step in which a list request fails leaves the message list, isProcessing
\* and every exchange as they are, keeps the summaries it had and clears
\* the loading indicator.
C29_RefreshIsFireAndForget ==
  [][/\ \A e \in ExchIds :
          (InFlight(e) /\ exch'[e].pc = "done" /\ exch'[e].refreshed) =>
            /\ ~isProcessing'
            /\ history'.loads = Append(history.loads, ListOf(history.server))
            /\ history'.conversations = history.conversations
     /\ \A i \in 1..Len(history.loads) :
          history' = ListFailed(history, i) =>
            /\ messages' = messages
            /\ isProcessing' = isProcessing
            /\ exch' = exch
            /\ history'.conversations = history.conversations
            /\ ~history'.isLoading]_vars

\* an exchange has ended with its reply, every list request including its
\* refresh has failed: the summaries are still the (empty) ones the
\* component began with, nothing is loading, and the list holds the two
\* messages of the exchange
C29_Witness ==
  /\ \E e \in ExchIds :
       exch[e].pc = "done" /\ exch[e].result = "assistant" /\ exch[e].refreshed
  /\ history.loads = <<>>
  /\ ~history.isLoading
  /\ history.conversations = <<>>
  /\ history.server # {}
  /\ ~isProcessing
  /\ Len(messages) = 2
  /\ ~messages[2].isUser
  /\ messages[2].text # ErrorText

----------------------------------------------------------------------------
(* Properties of the ticker *)

\* C30: in every state of a mounted recorder exactly one interval is
\* running when the machine is Recording and none when it is Idle or Paused.
C30_TickerIffRecording ==
  recorder.mounted =>
    Tickers(recorder) = IF Machine(recorder) = "Recording" THEN 1 ELSE 0

----------------------------------------------------------------------------
(* Properties of loadConversation *)

\* this step is the successful answer to the loadConversation call i, with
\* the messages data
LoadSucceeds(i, data) ==
  /\ i \in 1..Len(convLoads)
  /\ convLoads' = RemoveAt(convLoads, i)
  /\ ~loadFailed'
  /\ conversationId' = convLoads[i]
  /\ {messages'[k] : k \in 1..Len(messages')} = {data[k] : k \in 1..Len(data)}

\* C31: the step in which a loadConversation succeeds leaves in the message
\* list exactly the messages the service returned, in the order in which
\* it returned them.
C31_LoadKeepsServiceOrder ==
  [][\A i \in 1..Len(convLoads), data \in StoredLists :
       LoadSucceeds(i, data) => messages' = data]_vars

\* the emotion of the most recent user message of data that carries one,
\* NoEmotion when there is none (data is oldest first)
LastUserEmotion(data) ==
  LET hits == {k \in 1..Len(data) : data[k].isUser /\ data[k].emotion # NoEmotion}
  IN IF hits = {}
       THEN NoEmotion
       ELSE data[CHOOSE k \in hits : \A j \in hits : j <= k].emotion

\* C37: the step in which a loadConversation succeeds sets currentEmotion
\* to the emotion of the most recent user message of the loaded
\* conversation that carries one, and to null when there is none.
C37_LoadSetsEmotionOfLoaded ==
  [][\A i \in 1..Len(convLoads), data \in StoredLists :
       LoadSucceeds(i, data) => currentEmotion' = LastUserEmotion(data)]_vars

\* C39: the step in which a loadConversation ends without success (the
\* status is not a success, or the request throws) leaves conversationId,
\* the message list and currentEmotion as they are.
C39_FailedLoadChangesNothing ==
  [][\A i \in 1..Len(convLoads) :
       (convLoads' = RemoveAt(convLoads, i) /\ loadFailed') =>
         /\ conversationId' = conversationId
         /\ messages' = messages
         /\ currentEmotion' = currentEmotion]_vars

\* a stored conversation is displayed, the loadConversation made after the
\* one that loaded it has failed, and no load is pending
C39_Witness ==
  /\ loadFailed
  /\ convLoads = <<>>
  /\ conversationId \in history.server
  /\ conversationId # FirstConv
  /\ messages # <<>>
  /\ currentEmotion \in StoredEmotions

----------------------------------------------------------------------------
(* Properties of the auto-play of the EmotionCharacterPanel *)

\* C32: in every state in which the panel is not active or is unmounted,
\* no sound the panel created is loaded or playing.
C32_NoSoundWhileInactive ==
  (~player.panel.isActive \/ ~player.panel.mounted) => PanelLive(player.panel) = 0

----------------------------------------------------------------------------
(* Properties of isProcessing *)

\* C33: in every state in which some exchange is in flight isProcessing is
\* true.
C33_ProcessingWhileInFlight ==
  (\E e \in ExchIds : InFlight(e)) => isProcessing

----------------------------------------------------------------------------
(* Properties of an exchange that outlives its session *)

\* C34: a step of an exchange that is in flight while the conversation
\* displayed is no longer the one that was displayed when the exchange
\* began leaves the message list as it is.
C34_ResultsStayInOwnConversation ==
  [][\A e \in ExchIds :
       (/\ InFlight(e)
        /\ exch'[e] # exch[e]
        /\ conversationId # exch[e].session) =>
         messages' = messages]_vars

----------------------------------------------------------------------------
(* Properties of concurrent deletes *)

\* C35: the step in which a delete is answered with success takes exactly
\* the deleted id out of the local list as it stands in that step: the
\* list that results is the current one without that id.
C35_DeleteFiltersCurrentList ==
  [][\A i \in 1..Len(history.deletes) :
       (/\ history'.deletes = RemoveAt(history.deletes, i)
        /\ history'.answered = Append(history.answered, <<history.deletes[i].id, "ok">>)) =>
         history'.conversations =
           Filtered(history.conversations, history.deletes[i].id)]_vars

----------------------------------------------------------------------------
(* Properties of the delivery of recordings *)

\* C36: in every state the recorder has called onRecordingComplete at most
\* as often as stopRecording was called while recording or paused: no
\* AudioAsset is delivered that is not the result of a stop().
C36_DeliveryOnlyFromStop ==
  recorder.delivered <= recorder.stops

----------------------------------------------------------------------------
(* Properties of the placeholder resolution *)

\* C38: the step in which the reply request of a voice exchange succeeds
\* changes at most one message of the list, and a message it changes was
\* the placeholder of that exchange; every other message is the same
\* before and after the step.
C38_ResolutionChangesOnlyPlaceholder ==
  [][\A e \in ExchIds :
       (exch[e].kind = "voice" /\ exch[e].pc = "reply" /\ exch'[e].pc = "tts") =>
         /\ Len(messages') = Len(messages)
         /\ Cardinality({i \in 1..Len(messages) : messages'[i] # messages[i]}) <= 1
         /\ \A i \in 1..Len(messages) :
              messages'[i] # messages[i] =>
                messages[i] = UserMessage(exch[e].uid, ProcessingText)]_vars

====
